---- MODULE Spec2Model ----
(***************************************************************************)
(* Model of the short-form video service: VideoService (uploadVideo,       *)
(* getAllVideos, getVideoById, getRandomVideos, sanitizeFileName,          *)
(* getFileExtension) and VideoController.getRandomVideos, over a Google    *)
(* Cloud Storage bucket seen as a map from object names to objects.        *)
(*                                                                         *)
(* JavaScript strings are sequences of one-character strings.  The Hangul  *)
(* syllable U+AC00 (first of the range 가-힣 of the whitelist) is written   *)
(* "U+AC00", since the module text is ASCII.                               *)
(***************************************************************************)
EXTENDS Integers, Sequences, FiniteSets, TLC

(***************************************************************************)
(* Bounds of the model.                                                    *)
(***************************************************************************)
\* uploadVideo calls in one behaviour
MaxUploads == 2
\* last tick of the wall clock (one tick = one millisecond of Date)
MaxClock == 1
\* ticks per calendar month (the clock starts at the first tick of 2025-07)
TicksPerMonth == 1
\* longest title drawn for the sanitization specification
MaxLen == 3

(***************************************************************************)
(* Characters and strings.                                                 *)
(***************************************************************************)
LowerLetters ==
    << "a", "b", "c", "d", "e", "f", "g", "h", "i", "j", "k", "l", "m",
       "n", "o", "p", "q", "r", "s", "t", "u", "v", "w", "x", "y", "z" >>

UpperLetters ==
    << "A", "B", "C", "D", "E", "F", "G", "H", "I", "J", "K", "L", "M",
       "N", "O", "P", "Q", "R", "S", "T", "U", "V", "W", "X", "Y", "Z" >>

Digits == << "0", "1", "2", "3", "4", "5", "6", "7", "8", "9" >>

Range(s) == { s[i] : i \in 1..Len(s) }

IndexOf(s, c) == CHOOSE i \in 1..Len(s) : s[i] = c

\* The characters of the model in increasing code-point order (the order in
\* which the bucket lists object names).
CharOrder ==
    << "\t", " ", "!", "*", "-", ".", "/" >> \o Digits \o UpperLetters
        \o << "_" >> \o LowerLetters \o << "U+AC00" >>

Code(c) == IndexOf(CharOrder, c)

\* String.prototype.toLowerCase on one character
ToLowerChar(c) ==
    IF c \in Range(UpperLetters) THEN LowerLetters[IndexOf(UpperLetters, c)] ELSE c

toLowerCase(s) == [ i \in 1..Len(s) |-> ToLowerChar(s[i]) ]

\* the regular expression class \s
IsSpace(c) == c \in { " ", "\t" }

\* the class [a-zA-Z0-9가-힣\s-] of sanitizeFileName
IsAllowed(c) ==
    \/ c \in Range(LowerLetters)
    \/ c \in Range(UpperLetters)
    \/ c \in Range(Digits)
    \/ c = "U+AC00"
    \/ IsSpace(c)
    \/ c = "-"

\* s.replace(/[^a-zA-Z0-9가-힣\s-]/g, '')
StripDisallowed(s) == SelectSeq(s, IsAllowed)

\* s.replace(/[^a-zA-Z0-9가-힣\s-]/, ''): without the g flag only the first
\* match is removed
RECURSIVE StripFirstDisallowed(_)
StripFirstDisallowed(s) ==
    IF s = << >> THEN << >>
    ELSE IF ~IsAllowed(Head(s)) THEN Tail(s)
    ELSE << Head(s) >> \o StripFirstDisallowed(Tail(s))

\* s.replace(/\s+/g, '-'): every maximal run of whitespace becomes one hyphen
RECURSIVE CollapseSpaces(_)
CollapseSpaces(s) ==
    IF s = << >> THEN << >>
    ELSE IF IsSpace(Head(s))
         THEN IF Len(s) > 1 /\ IsSpace(s[2])
              THEN CollapseSpaces(Tail(s))
              ELSE << "-" >> \o CollapseSpaces(Tail(s))
         ELSE << Head(s) >> \o CollapseSpaces(Tail(s))

sanitizeFileName_firstMatchOnly(title) ==
    toLowerCase(CollapseSpaces(StripFirstDisallowed(title)))

sanitizeFileName(title) ==
    toLowerCase(CollapseSpaces(StripDisallowed(title)))

(***************************************************************************)
(* String operations of the JavaScript runtime used by the service.        *)
(***************************************************************************)
\* s.startsWith(p); also the bucket's test "the object name begins with prefix"
StartsWith(s, p) == Len(p) <= Len(s) /\ SubSeq(s, 1, Len(p)) = p

\* s.endsWith(p)
EndsWith(s, p) == Len(p) <= Len(s) /\ SubSeq(s, Len(s) - Len(p) + 1, Len(s)) = p

\* s.includes(p)
Includes(s, p) ==
    \E i \in 1..(Len(s) - Len(p) + 1) : SubSeq(s, i, i + Len(p) - 1) = p

\* s.split(sep), sep one character: the pieces between the separators
RECURSIVE Split(_, _)
Split(s, sep) ==
    IF \A i \in 1..Len(s) : s[i] # sep THEN << s >>
    ELSE LET i == CHOOSE j \in 1..Len(s) :
                      s[j] = sep /\ \A k \in 1..(j - 1) : s[k] # sep
         IN  << SubSeq(s, 1, i - 1) >> \o Split(SubSeq(s, i + 1, Len(s)), sep)

\* String(n) for a natural number n
RECURSIVE NatToString(_)
NatToString(n) ==
    IF n < 10 THEN << Digits[n + 1] >>
    ELSE NatToString(n \div 10) \o << Digits[(n % 10) + 1] >>

\* s.padStart(width, '0')
RECURSIVE padStart(_, _)
padStart(s, width) ==
    IF Len(s) >= width THEN s ELSE padStart(<< "0" >> \o s, width)

\* the number a string of decimal digits denotes
RECURSIVE DigitsToNat(_)
DigitsToNat(s) ==
    IF s = << >> THEN 0
    ELSE 10 * DigitsToNat(SubSeq(s, 1, Len(s) - 1)) + (IndexOf(Digits, s[Len(s)]) - 1)

\* the order of object names in a bucket listing: by code point, a proper
\* prefix first
LexLess(a, b) ==
    LET n == IF Len(a) < Len(b) THEN Len(a) ELSE Len(b)
        differ == { i \in 1..n : a[i] # b[i] }
    IN  IF differ = {} THEN Len(a) < Len(b)
        ELSE LET i == CHOOSE d \in differ : \A e \in differ : d <= e
             IN  Code(a[i]) < Code(b[i])

\* a finite set of names as the sequence a listing returns
RECURSIVE SortedNames(_)
SortedNames(S) ==
    IF S = {} THEN << >>
    ELSE LET m == CHOOSE x \in S : \A y \in S \ {x} : LexLess(x, y)
         IN  << m >> \o SortedNames(S \ {m})

(***************************************************************************)
(* Dates.  The clock counts milliseconds from the start of July 2025; a    *)
(* month lasts TicksPerMonth ticks.  The server's time zone is UTC, so     *)
(* getFullYear/getMonth and toISOString agree on the month.                *)
(***************************************************************************)
MonthsSinceJanuary2025(t) == 6 + (t \div TicksPerMonth)

\* Date.prototype.getFullYear
getFullYear(t) == 2025 + (MonthsSinceJanuary2025(t) \div 12)

\* Date.prototype.getMonth (0 for January)
getMonth(t) == MonthsSinceJanuary2025(t) % 12

\* Date.prototype.toISOString, as YYYY-MMTmmmZ with mmm the milliseconds
\* elapsed in the month
toISOString(t) ==
    NatToString(getFullYear(t)) \o << "-" >>
        \o padStart(NatToString(getMonth(t) + 1), 2) \o << "T" >>
        \o padStart(NatToString(t % TicksPerMonth), 3) \o << "Z" >>

\* new Date(iso).getTime()
DateGetTime(iso) ==
    LET y  == DigitsToNat(SubSeq(iso, 1, 4))
        m  == DigitsToNat(SubSeq(iso, 6, 7))
        ms == DigitsToNat(SubSeq(iso, 9, 11))
    IN  (((y - 2025) * 12 + (m - 1)) - 6) * TicksPerMonth + ms

(***************************************************************************)
(* Names of the objects uploadVideo writes.                                *)
(***************************************************************************)
bucketName == << "b", "k", "t" >>

VideosPrefix == << "v", "i", "d", "e", "o", "s", "/" >>

\* filename.split('.').pop()?.toLowerCase() || 'mp4'
getFileExtension(filename) ==
    LET parts == Split(filename, ".")
        last  == toLowerCase(parts[Len(parts)])
    IN  IF last = << >> THEN << "m", "p", "4" >> ELSE last

\* `videos/${year}/${month}/`
MonthFolder(now) ==
    VideosPrefix \o NatToString(getFullYear(now)) \o << "/" >>
        \o padStart(NatToString(getMonth(now) + 1), 2) \o << "/" >>

\* gcsPath
GcsPath(title, originalname, now) ==
    MonthFolder(now) \o sanitizeFileName(title) \o << "." >>
        \o getFileExtension(originalname)

\* metadataPath
MetadataPath(title, now) ==
    MonthFolder(now) \o << "m", "e", "t", "a", "d", "a", "t", "a", "/" >>
        \o sanitizeFileName(title) \o << ".", "j", "s", "o", "n" >>

\* `gs://${this.bucketName}/${gcsPath}`
GsUrl(path) == << "g", "s", ":", "/", "/" >> \o bucketName \o << "/" >> \o path

\* `https://storage.googleapis.com/${this.bucketName}/${gcsPath}`
PublicUrl(path) ==
    << "h", "t", "t", "p", "s", ":", "/", "/", "s", "t", "o", "r", "a", "g", "e", ".",
       "g", "o", "o", "g", "l", "e", "a", "p", "i", "s", ".", "c", "o", "m", "/" >>
        \o bucketName \o << "/" >> \o path

\* the VideoMetadata object uploadVideo assembles
VideoMetadata(title, file, now) ==
    [ title       |-> title,
      description |-> << >>,
      tags        |-> << >>,
      category    |-> << >>,
      uploadDate  |-> toISOString(now),
      fileSize    |-> file.size,
      format      |-> getFileExtension(file.originalname),
      videoUrl    |-> GsUrl(GcsPath(title, file.originalname, now)),
      publicUrl   |-> PublicUrl(GcsPath(title, file.originalname, now)) ]

(***************************************************************************)
(* Inputs drawn by the model.                                              *)
(***************************************************************************)
Uploads == 1..MaxUploads

\* titles: "Cat!" sanitizes to "cat", "!!!!!" to the empty string
Titles == { << "C", "a", "t", "!" >>, << "!", "!", "!", "!", "!" >> }

\* Express.Multer.File: originalname and size (the buffer is identified by
\* the upload that carries it)
Files ==
    { [ originalname |-> << "a", ".", "M", "P", "4" >>, size |-> 1 ],
      [ originalname |-> << "b", ".", "m", "o", "v" >>, size |-> 2 ] }

NoFile == [ originalname |-> << >>, size |-> 0 ]

\* the count query parameter of GET /video/random: absent, or its text
Absent == [ present |-> FALSE, value |-> << >> ]

Text(s) == [ present |-> TRUE, value |-> s ]

Queries ==
    { Absent, Text(<< "a", "b", "c" >>), Text(<< "-", "1" >>), Text(<< "0" >>),
      Text(<< "1" >>) }

(***************************************************************************)
(* Objects of the bucket.  by: the upload call that wrote the object       *)
(* (0: not written by this service); parses: whether JSON.parse accepts    *)
(* the content; value: what JSON.parse returns, or for a video object its  *)
(* custom metadata.                                                        *)
(***************************************************************************)
VideoObject(u, title, now) ==
    [ by |-> u, parses |-> FALSE,
      value |-> [ title |-> title, uploadDate |-> toISOString(now) ] ]

\* JSON.stringify(videoMetadata, null, 2) saved as application/json
JsonObject(u, videoMetadata) ==
    [ by |-> u, parses |-> TRUE, value |-> videoMetadata ]

CorruptObject == [ by |-> 0, parses |-> FALSE, value |-> << >> ]

EmptyBucket == << >>

\* videos/2025/07/metadata/cat.json
OldMetadataName ==
    << "v", "i", "d", "e", "o", "s", "/", "2", "0", "2", "5", "/", "0", "7", "/",
       "m", "e", "t", "a", "d", "a", "t", "a", "/", "c", "a", "t", ".", "j", "s", "o", "n" >>

\* videos/*/metadata/cat.json
StarMetadataName ==
    << "v", "i", "d", "e", "o", "s", "/", "*", "/",
       "m", "e", "t", "a", "d", "a", "t", "a", "/", "c", "a", "t", ".", "j", "s", "o", "n" >>

\* What the bucket may hold before the service starts: nothing, or two
\* objects the service did not write: a metadata object that is not JSON, and
\* a JSON record under the name that is literally videos/*/metadata/cat.json.
ForeignBucket ==
    [ k \in { OldMetadataName, StarMetadataName } |->
        IF k = OldMetadataName THEN CorruptObject
        ELSE JsonObject(0, VideoMetadata(<< "c", "a", "t" >>,
                 [ originalname |-> << "a", ".", "M", "P", "4" >>, size |-> 1 ], 0)) ]

InitialBuckets == { EmptyBucket, ForeignBucket }

(***************************************************************************)
(* State.                                                                  *)
(***************************************************************************)
VARIABLES
    store,      \* the bucket: object name -> object
    clock,      \* the wall clock (new Date())
    upc,        \* upc[u]: where upload call u stands
    utitle,     \* utitle[u]: metadata.title of call u
    ufile,      \* ufile[u]: file of call u
    unow,       \* unow[u]: now of call u
    uresult,    \* uresult[u]: what call u returned or threw
    rpc,        \* where the catalog read in progress stands
    rop,        \* the operation of the current (or last) catalog read
    rquery,     \* ?count= of GET /video/random
    rcount,     \* count of getRandomVideos
    rtitle,     \* title of getVideoById
    files,      \* files / metadataFiles of the read
    videos,     \* videos of getAllVideos
    fileIndex,  \* position of the for loop of getAllVideos in files
    rresult,    \* what the read returned or threw
    sanIn,      \* sanitization specification: the title drawn
    sanOut      \* sanitization specification: results of successive calls

uploadVars == << upc, utitle, ufile, unow, uresult >>

readVars ==
    << rpc, rop, rquery, rcount, rtitle, files, videos, fileIndex, rresult >>

sanVars == << sanIn, sanOut >>

vars == << store, clock, uploadVars, readVars, sanVars >>

None == [ status |-> "none", value |-> << >> ]

Ok(v) == [ status |-> "ok", value |-> v ]

Err(cause) == [ status |-> "error", value |-> cause ]

\* JavaScript numbers: an integer or NaN
Num(n) == [ nan |-> FALSE, n |-> n ]

NaN == [ nan |-> TRUE, n |-> 0 ]

Init ==
    /\ store \in InitialBuckets
    /\ clock = 0
    /\ upc = [ u \in Uploads |-> "idle" ]
    /\ utitle = [ u \in Uploads |-> << >> ]
    /\ ufile = [ u \in Uploads |-> NoFile ]
    /\ unow = [ u \in Uploads |-> 0 ]
    /\ uresult = [ u \in Uploads |-> None ]
    /\ rpc = "idle"
    /\ rop = "none"
    /\ rquery = Absent
    /\ rcount = Num(0)
    /\ rtitle = << >>
    /\ files = << >>
    /\ videos = << >>
    /\ fileIndex = 1
    /\ rresult = None
    /\ sanIn = << >>
    /\ sanOut = << >>

\* bucket.file(name).save / createWriteStream (resumable: false): the object
\* is created or replaced as a whole; a write that fails leaves the bucket as
\* it was
Put(bucket, name, object) ==
    [ k \in (DOMAIN bucket) \cup { name } |->
        IF k = name THEN object ELSE bucket[k] ]

\* The value a read returned or threw leaves with the HTTP response: it is
\* observable in the state its last step produces and gone after the next
\* step of anything else.
ReadResultLeaves ==
    IF rpc = "idle"
    THEN /\ rop' = "none"
         /\ rquery' = Absent
         /\ rcount' = Num(0)
         /\ rtitle' = << >>
         /\ files' = << >>
         /\ videos' = << >>
         /\ fileIndex' = 1
         /\ rresult' = None
         /\ UNCHANGED rpc
    ELSE UNCHANGED readVars

\* time passes
Tick ==
    /\ clock < MaxClock
    /\ clock' = clock + 1
    /\ UNCHANGED << store, uploadVars, sanVars >>
    /\ ReadResultLeaves

(***************************************************************************)
(* uploadVideo.                                                            *)
(***************************************************************************)
BinaryKey(u) == GcsPath(utitle[u], ufile[u].originalname, unow[u])

MetadataKey(u) == MetadataPath(utitle[u], unow[u])

\* Entry up to the await of the write stream: now is read, the names are
\* derived and the stream is opened and ended with the file's bytes.
UploadStart(u, file, title) ==
    /\ upc[u] = "idle"
    /\ IF u = 1 THEN TRUE ELSE upc[u - 1] # "idle"
    /\ upc' = [ upc EXCEPT ![u] = "writeBinary" ]
    /\ utitle' = [ utitle EXCEPT ![u] = title ]
    /\ ufile' = [ ufile EXCEPT ![u] = file ]
    /\ unow' = [ unow EXCEPT ![u] = clock ]
    /\ UNCHANGED << store, clock, uresult, sanVars >>
    /\ ReadResultLeaves

\* The stream's 'finish' event: the video object is in the bucket; the
\* metadata is assembled and its save is issued.
UploadBinaryFinish(u) ==
    /\ upc[u] = "writeBinary"
    /\ store' = Put(store, BinaryKey(u), VideoObject(u, utitle[u], unow[u]))
    /\ upc' = [ upc EXCEPT ![u] = "writeMetadata" ]
    /\ UNCHANGED << clock, utitle, ufile, unow, uresult, sanVars >>
    /\ ReadResultLeaves

\* Mutant: the 'error' event is logged and the call goes on to the metadata.
UploadBinaryError_goesOn(u) ==
    /\ upc[u] = "writeBinary"
    /\ upc' = [ upc EXCEPT ![u] = "writeMetadata" ]
    /\ UNCHANGED << store, clock, utitle, ufile, unow, uresult, sanVars >>
    /\ ReadResultLeaves

\* The stream's 'error' event: the promise rejects, the catch block logs and
\* rethrows.
UploadBinaryError(u) ==
    /\ upc[u] = "writeBinary"
    /\ upc' = [ upc EXCEPT ![u] = "failed" ]
    /\ uresult' = [ uresult EXCEPT ![u] = Err("binary write") ]
    /\ UNCHANGED << store, clock, utitle, ufile, unow, sanVars >>
    /\ ReadResultLeaves

\* Mutant: the object is written only when no object has the name yet.
UploadMetadataSaved_ifAbsent(u) ==
    /\ upc[u] = "writeMetadata"
    /\ store' = IF MetadataKey(u) \in DOMAIN store THEN store
                ELSE Put(store, MetadataKey(u),
                         JsonObject(u, VideoMetadata(utitle[u], ufile[u], unow[u])))
    /\ upc' = [ upc EXCEPT ![u] = "done" ]
    /\ uresult' = [ uresult EXCEPT ![u] =
                        Ok(VideoMetadata(utitle[u], ufile[u], unow[u])) ]
    /\ UNCHANGED << clock, utitle, ufile, unow, sanVars >>
    /\ ReadResultLeaves

\* save() of the metadata resolves: the JSON object is in the bucket and the
\* call returns videoMetadata.
UploadMetadataSaved(u) ==
    /\ upc[u] = "writeMetadata"
    /\ store' = Put(store, MetadataKey(u),
                    JsonObject(u, VideoMetadata(utitle[u], ufile[u], unow[u])))
    /\ upc' = [ upc EXCEPT ![u] = "done" ]
    /\ uresult' = [ uresult EXCEPT ![u] =
                        Ok(VideoMetadata(utitle[u], ufile[u], unow[u])) ]
    /\ UNCHANGED << clock, utitle, ufile, unow, sanVars >>
    /\ ReadResultLeaves

\* Mutant: when the save of the metadata rejects, the video object is deleted.
UploadMetadataError_rollsBack(u) ==
    /\ upc[u] = "writeMetadata"
    /\ store' = [ k \in (DOMAIN store) \ { BinaryKey(u) } |-> store[k] ]
    /\ upc' = [ upc EXCEPT ![u] = "failed" ]
    /\ uresult' = [ uresult EXCEPT ![u] = Err("metadata write") ]
    /\ UNCHANGED << clock, utitle, ufile, unow, sanVars >>
    /\ ReadResultLeaves

\* save() of the metadata rejects: the catch block logs and rethrows; the
\* video object written before stays.
UploadMetadataError(u) ==
    /\ upc[u] = "writeMetadata"
    /\ upc' = [ upc EXCEPT ![u] = "failed" ]
    /\ uresult' = [ uresult EXCEPT ![u] = Err("metadata write") ]
    /\ UNCHANGED << store, clock, utitle, ufile, unow, sanVars >>
    /\ ReadResultLeaves

(***************************************************************************)
(* The catalog reads.  Reads write nothing and do not see one another, so  *)
(* one read at a time, interleaved with the uploads, shows every outcome   *)
(* a read can have.  A listing or a download that the storage service      *)
(* rejects takes the same catch, log and rethrow path as a parse error and *)
(* is not drawn separately.                                                *)
(***************************************************************************)
\* bucket.getFiles({ prefix }): the objects whose name begins with prefix,
\* taken literally, in the order of their names
GetFiles(prefix) ==
    SortedNames({ k \in DOMAIN store : StartsWith(k, prefix) })

\* file.name.includes('/metadata/') && file.name.endsWith('.json')
IsMetadataFile(name) ==
    /\ Includes(name, << "/", "m", "e", "t", "a", "d", "a", "t", "a", "/" >>)
    /\ EndsWith(name, << ".", "j", "s", "o", "n" >>)

\* new Date(b.uploadDate).getTime() - new Date(a.uploadDate).getTime()
Compare_ascending(a, b) == DateGetTime(a.uploadDate) - DateGetTime(b.uploadDate)

Compare(a, b) == DateGetTime(b.uploadDate) - DateGetTime(a.uploadDate)

\* Array.prototype.sort with Compare: a stable sort (ECMAScript 2019), here
\* by insertion: x goes before the first element that must follow it
RECURSIVE Insert(_, _)
Insert(sorted, x) ==
    IF sorted = << >> THEN << x >>
    ELSE IF Compare(Head(sorted), x) > 0 THEN << x >> \o sorted
    ELSE << Head(sorted) >> \o Insert(Tail(sorted), x)

RECURSIVE Sort(_)
Sort(vs) ==
    IF vs = << >> THEN << >>
    ELSE Insert(Sort(SubSeq(vs, 1, Len(vs) - 1)), vs[Len(vs)])

\* Math.min(count, n), n an integer
MathMin(count, n) ==
    IF count.nan THEN NaN ELSE Num(IF count.n < n THEN count.n ELSE n)

\* s.slice(0, end): NaN counts as 0, a negative end counts from the end of s
Slice(s, end) ==
    LET e == IF end.nan THEN 0
             ELSE IF end.n < 0
                  THEN (IF Len(s) + end.n < 0 THEN 0 ELSE Len(s) + end.n)
                  ELSE (IF end.n > Len(s) THEN Len(s) ELSE end.n)
    IN  SubSeq(s, 1, e)

Swap(s, i, j) == [ s EXCEPT ![i] = s[j], ![j] = s[i] ]

\* The Fisher-Yates loop from position i down: Math.random() picks any j
\* at or below i.  The set of arrays the loop can leave.
RECURSIVE Shuffled(_, _)
Shuffled(s, i) ==
    IF i <= 1 THEN { s }
    ELSE UNION { Shuffled(Swap(s, i, j), i - 1) : j \in 1..i }

\* parseInt(text, 10): leading whitespace, an optional minus sign, then
\* decimal digits up to the first other character; NaN when there is none
parseInt(text) ==
    LET RECURSIVE SkipSpaces(_)
        SkipSpaces(s) ==
            IF s # << >> /\ IsSpace(Head(s)) THEN SkipSpaces(Tail(s)) ELSE s
        RECURSIVE LeadingDigits(_)
        LeadingDigits(s) ==
            IF s # << >> /\ Head(s) \in Range(Digits)
            THEN << Head(s) >> \o LeadingDigits(Tail(s))
            ELSE << >>
        t        == SkipSpaces(text)
        negative == t # << >> /\ Head(t) = "-"
        digits   == LeadingDigits(IF negative THEN Tail(t) ELSE t)
    IN  IF digits = << >> THEN NaN
        ELSE Num(IF negative THEN 0 - DigitsToNat(digits) ELSE DigitsToNat(digits))

\* the default of the controller and of the count parameter
DefaultCount == 5

\* count ? parseInt(count, 10) : 5
CountNum(query) ==
    IF query.present /\ query.value # << >> THEN parseInt(query.value)
    ELSE Num(DefaultCount)

\* What getRandomVideos can return once getAllVideos has returned allVideos.
RandomVideos(count, allVideos) ==
    IF Len(allVideos) = 0 THEN { << >> }
    ELSE { Slice(shuffled, MathMin(count, Len(allVideos))) :
               shuffled \in Shuffled(allVideos, Len(allVideos)) }

\* What the read in progress returns once every file is parsed into vs.
Returns(vs) ==
    IF rop = "getRandomVideos" THEN { Ok(r) : r \in RandomVideos(rcount, Sort(vs)) }
    ELSE { Ok(Sort(vs)) }

\* getAllVideos up to its first download: the listing and the filter; with
\* no metadata file the call returns at once.
ListMetadataFiles ==
    LET metadataFiles == SelectSeq(GetFiles(VideosPrefix), IsMetadataFile)
    IN  /\ files' = metadataFiles
        /\ videos' = << >>
        /\ fileIndex' = 1
        /\ IF metadataFiles = << >>
           THEN /\ rpc' = "idle"
                /\ rresult' \in { Ok(r) : r \in
                       IF rop' = "getRandomVideos" THEN RandomVideos(rcount', << >>)
                       ELSE { << >> } }
           ELSE /\ rpc' = "download"
                /\ rresult' = None

\* GET /video
GetAllVideosCall ==
    /\ rpc = "idle"
    /\ rop' = "getAllVideos"
    /\ rquery' = Absent
    /\ rcount' = Num(0)
    /\ rtitle' = << >>
    /\ ListMetadataFiles
    /\ UNCHANGED << store, clock, uploadVars, sanVars >>

\* GET /video/random?count=...
GetRandomVideosCall(query) ==
    /\ rpc = "idle"
    /\ rop' = "getRandomVideos"
    /\ rquery' = query
    /\ rcount' = CountNum(query)
    /\ rtitle' = << >>
    /\ ListMetadataFiles
    /\ UNCHANGED << store, clock, uploadVars, sanVars >>

\* Mutant: a file that does not parse is skipped.
GetAllVideosDownload_skipsBad ==
    /\ rpc = "download"
    /\ LET object == store[files[fileIndex]]
           vs == IF object.parses THEN Append(videos, object.value) ELSE videos
       IN  /\ videos' = vs
           /\ fileIndex' = fileIndex + 1
           /\ IF fileIndex = Len(files)
              THEN rpc' = "idle" /\ rresult' \in Returns(vs)
              ELSE rpc' = "download" /\ rresult' = None
    /\ UNCHANGED << store, clock, uploadVars, sanVars,
                    rop, rquery, rcount, rtitle, files >>

\* One turn of the for loop of getAllVideos: download and JSON.parse.  A
\* parse error is caught, logged and rethrown (by getRandomVideos too); after
\* the last file the videos are sorted and the call returns.
GetAllVideosDownload ==
    /\ rpc = "download"
    /\ LET object == store[files[fileIndex]]
       IN  IF ~object.parses
           THEN /\ rpc' = "idle"
                /\ rresult' = Err("parse")
                /\ UNCHANGED << videos, fileIndex >>
           ELSE /\ videos' = Append(videos, object.value)
                /\ fileIndex' = fileIndex + 1
                /\ IF fileIndex = Len(files)
                   THEN rpc' = "idle" /\ rresult' \in Returns(videos')
                   ELSE rpc' = "download" /\ rresult' = None
    /\ UNCHANGED << store, clock, uploadVars, sanVars,
                    rop, rquery, rcount, rtitle, files >>

NotFound == [ status |-> "null", value |-> << >> ]

\* `videos/*/metadata/${safeTitle}.json`
LookupPrefix(title) ==
    << "v", "i", "d", "e", "o", "s", "/", "*", "/",
       "m", "e", "t", "a", "d", "a", "t", "a", "/" >>
        \o sanitizeFileName(title) \o << ".", "j", "s", "o", "n" >>

\* GET by title, up to the download: the listing under the prefix; null when
\* it is empty.
GetVideoByIdCall(title) ==
    /\ rpc = "idle"
    /\ rop' = "getVideoById"
    /\ rquery' = Absent
    /\ rcount' = Num(0)
    /\ rtitle' = title
    /\ files' = GetFiles(LookupPrefix(title))
    /\ videos' = << >>
    /\ fileIndex' = 1
    /\ IF files' = << >>
       THEN rpc' = "idle" /\ rresult' = NotFound
       ELSE rpc' = "downloadFirst" /\ rresult' = None
    /\ UNCHANGED << store, clock, uploadVars, sanVars >>

\* files[0].download() and JSON.parse
GetVideoByIdDownload ==
    /\ rpc = "downloadFirst"
    /\ rpc' = "idle"
    /\ rresult' = IF store[files[1]].parses THEN Ok(store[files[1]].value)
                  ELSE Err("parse")
    /\ UNCHANGED << store, clock, uploadVars, sanVars,
                    rop, rquery, rcount, rtitle, files, videos, fileIndex >>

(***************************************************************************)
(* The specification of the service.                                       *)
(***************************************************************************)
Next ==
    \/ Tick
    \/ \E u \in Uploads, file \in Files, title \in Titles : UploadStart(u, file, title)
    \/ \E u \in Uploads : UploadBinaryFinish(u)
    \/ \E u \in Uploads : UploadBinaryError(u)
    \/ \E u \in Uploads : UploadMetadataSaved(u)
    \/ \E u \in Uploads : UploadMetadataError(u)
    \/ GetAllVideosCall
    \/ \E query \in Queries : GetRandomVideosCall(query)
    \/ GetAllVideosDownload
    \/ \E title \in Titles : GetVideoByIdCall(title)
    \/ GetVideoByIdDownload

Spec == Init /\ [][Next]_vars

(***************************************************************************)
(* The specification of sanitizeFileName alone: a title is drawn, the      *)
(* function is applied to it and then to its own result.                   *)
(***************************************************************************)
SanAlphabet == { "a", "B", "7", "U+AC00", "-", " ", "\t", "!", "_" }

SanTitles == UNION { [ 1..n -> SanAlphabet ] : n \in 0..MaxLen }

InitSanitize ==
    /\ store = EmptyBucket
    /\ clock = 0
    /\ upc = [ u \in Uploads |-> "idle" ]
    /\ utitle = [ u \in Uploads |-> << >> ]
    /\ ufile = [ u \in Uploads |-> NoFile ]
    /\ unow = [ u \in Uploads |-> 0 ]
    /\ uresult = [ u \in Uploads |-> None ]
    /\ rpc = "idle"
    /\ rop = "none"
    /\ rquery = Absent
    /\ rcount = Num(0)
    /\ rtitle = << >>
    /\ files = << >>
    /\ videos = << >>
    /\ fileIndex = 1
    /\ rresult = None
    /\ sanIn \in SanTitles
    /\ sanOut = << >>

SanitizeTitle ==
    /\ sanOut = << >>
    /\ sanOut' = << sanitizeFileName(sanIn) >>
    /\ UNCHANGED << store, clock, uploadVars, readVars, sanIn >>

SanitizeAgain ==
    /\ Len(sanOut) = 1
    /\ sanOut' = Append(sanOut, sanitizeFileName(sanOut[1]))
    /\ UNCHANGED << store, clock, uploadVars, readVars, sanIn >>

NextSanitize == SanitizeTitle \/ SanitizeAgain

SpecSanitize == InitSanitize /\ [][NextSanitize]_vars

(***************************************************************************)
(* Properties.                                                             *)
(***************************************************************************)
\* the JSON objects call u wrote that are in the bucket
MetadataObjectsOf(u) ==
    { k \in DOMAIN store : store[k].by = u /\ store[k].parses }

\* the objects call u wrote that are in the bucket
ObjectsOf(u) == { k \in DOMAIN store : store[k].by = u }

\* the reader took the step (a call or a download), not an upload or the clock
ReadStep ==
    \/ rpc = "idle" /\ rop' # "none"
    \/ rpc # "idle" /\ readVars' # readVars

\* C1: within one uploadVideo call the binary object is written before the
\* metadata object; a failed write ends the call with an error and nothing is
\* rolled back: after a failed binary write the call has written no metadata
\* object; after a failed metadata write the call has returned an error, its
\* binary object is still in the bucket and the call has written no metadata.
C1_BinaryThenMetadataNoRollback ==
    \A u \in Uploads :
        /\ MetadataObjectsOf(u) # {} => upc[u] = "done"
        /\ upc[u] \in { "writeMetadata", "done" } => BinaryKey(u) \in DOMAIN store
        /\ upc[u] = "failed" =>
              /\ uresult[u].status = "error"
              /\ MetadataObjectsOf(u) = {}
              /\ uresult[u].value = "metadata write" => BinaryKey(u) \in DOMAIN store

\* an upload whose metadata write failed left its binary object behind, with
\* no metadata object under the name it would have written
C1_Witness ==
    \E u \in Uploads :
        /\ upc[u] = "failed"
        /\ uresult[u].value = "metadata write"
        /\ BinaryKey(u) \in ObjectsOf(u)
        /\ MetadataKey(u) \notin DOMAIN store

\* two finished, successful uploads that wrote under the same two names
SameNames(u, v) ==
    /\ u # v
    /\ upc[u] = "done"
    /\ upc[v] = "done"
    /\ BinaryKey(u) = BinaryKey(v)
    /\ MetadataKey(u) = MetadataKey(v)

\* C2 as stated: once two uploads with the same (non-empty) sanitized title,
\* extension and month have both finished, the stored binary object and the
\* stored metadata object were written by the same upload.
C2_PairOfOneUpload ==
    \A u, v \in Uploads :
        (SameNames(u, v) /\ sanitizeFileName(utitle[u]) # << >>) =>
            store[BinaryKey(u)].by = store[MetadataKey(u)].by

\* C2 as amended: neither upload detects the other.  Every write that
\* succeeds puts the writer's object under the name, replacing what was
\* there, and a metadata write that succeeds ends the call without error; so
\* once both have finished the binary object is the one whose write came last
\* and the metadata object is the one whose write came last, each from one of
\* the colliding uploads, not necessarily the same one.
C2_LastWriteWinsPerObject ==
    /\ [][ \A u \in Uploads :
             /\ (upc[u] = "writeBinary" /\ upc'[u] = "writeMetadata")
                   => /\ BinaryKey(u) \in DOMAIN store'
                      /\ store'[BinaryKey(u)].by = u
             /\ (upc[u] = "writeMetadata" /\ upc'[u] = "done")
                   => /\ MetadataKey(u) \in DOMAIN store'
                      /\ store'[MetadataKey(u)].by = u
                      /\ uresult'[u].status = "ok" ]_vars
    /\ [](\A u, v \in Uploads :
             SameNames(u, v) =>
                /\ \E w \in Uploads :
                      /\ store[BinaryKey(u)].by = w
                      /\ upc[w] \in { "writeMetadata", "done", "failed" }
                      /\ BinaryKey(w) = BinaryKey(u)
                /\ \E w \in Uploads :
                      /\ store[MetadataKey(u)].by = w
                      /\ upc[w] = "done"
                      /\ MetadataKey(w) = MetadataKey(u))

\* both uploads have finished without error and the stored pair is mixed:
\* the binary object of one, the metadata object of the other
C2_Witness ==
    \E u, v \in Uploads :
        /\ SameNames(u, v)
        /\ store[BinaryKey(u)].by = u
        /\ store[MetadataKey(u)].by = v

\* the records of s in an order that is non-increasing by upload time and
\* keeps, among equal times, the order they have in s
StableDescending(result, s) ==
    /\ Len(result) = Len(s)
    /\ \A i \in 1..(Len(result) - 1) :
          DateGetTime(result[i].uploadDate) >= DateGetTime(result[i + 1].uploadDate)
    /\ \E pi \in [ 1..Len(s) -> 1..Len(s) ] :
          /\ \A i, j \in 1..Len(s) : i # j => pi[i] # pi[j]
          /\ \A i \in 1..Len(s) : result[i] = s[pi[i]]
          /\ \A i, j \in 1..Len(s) :
                (i < j /\ DateGetTime(result[i].uploadDate)
                            = DateGetTime(result[j].uploadDate)) => pi[i] < pi[j]

\* C3: getAllVideos lists exactly the objects under videos/ whose name
\* contains /metadata/ and ends in .json, each once, and returns one record
\* per listed object, non-increasing by uploadDate, records of equal
\* uploadDate in listing order.
C3_ListAllSortedStable ==
    /\ [][ (rpc = "idle" /\ rop' = "getAllVideos") =>
              /\ Range(files') = { k \in DOMAIN store :
                                     /\ StartsWith(k, VideosPrefix)
                                     /\ Includes(k, << "/", "m", "e", "t", "a",
                                                       "d", "a", "t", "a", "/" >>)
                                     /\ EndsWith(k, << ".", "j", "s", "o", "n" >>) }
              /\ \A i, j \in 1..Len(files') : i # j => files'[i] # files'[j] ]_vars
    /\ []((rop = "getAllVideos" /\ rresult.status = "ok") =>
              /\ Len(videos) = Len(files)
              /\ StableDescending(rresult.value, videos))

\* getAllVideos returned three records, two of them of equal uploadDate, in
\* another order than the listing's
C3_Witness ==
    /\ rop = "getAllVideos"
    /\ rresult.status = "ok"
    /\ Len(rresult.value) >= 3
    /\ rresult.value # videos
    /\ \E i \in 1..(Len(rresult.value) - 1) :
          rresult.value[i].uploadDate = rresult.value[i + 1].uploadDate

\* C4: for an integer count and a catalog of n records getRandomVideos
\* returns min(count, n) records when count >= 1 (all n when count > n) and
\* none when count <= 0.
C4_RandomLength ==
    (rop = "getRandomVideos" /\ rresult.status = "ok" /\ ~rcount.nan) =>
        Len(rresult.value) =
            IF rcount.n <= 0 THEN 0
            ELSE IF rcount.n > Len(videos) THEN Len(videos) ELSE rcount.n

\* C5: an upload whose title sanitizes to the empty string fails with
\* InvalidTitleError and writes no object.
C5_EmptyTitleRejected ==
    \A u \in Uploads :
        (upc[u] # "idle" /\ sanitizeFileName(utitle[u]) = << >>) =>
            /\ ObjectsOf(u) = {}
            /\ upc[u] # "done"
            /\ upc[u] = "failed" => uresult[u].value = "InvalidTitleError"

\* name is videos/{year}/{month}/metadata/{safeTitle}.json for some year and
\* month
IsMetadataNameOf(name, safeTitle) ==
    LET parts == Split(name, "/")
    IN  /\ Len(parts) = 5
        /\ parts[1] = << "v", "i", "d", "e", "o", "s" >>
        /\ parts[2] # << >> /\ \A i \in 1..Len(parts[2]) : parts[2][i] \in Range(Digits)
        /\ parts[3] # << >> /\ \A i \in 1..Len(parts[3]) : parts[3][i] \in Range(Digits)
        /\ parts[4] = << "m", "e", "t", "a", "d", "a", "t", "a" >>
        /\ parts[5] = safeTitle \o << ".", "j", "s", "o", "n" >>

\* C6: getVideoById(title), for a title with a non-empty sanitized form,
\* answers not-found only when the bucket holds no metadata object named
\* videos/{year}/{month}/metadata/{sanitizedTitle}.json.
C6_LookupFindsStoredRecord ==
    (/\ rop = "getVideoById"
     /\ rresult.status = "null"
     /\ sanitizeFileName(rtitle) # << >>) =>
        ~ \E k \in DOMAIN store : IsMetadataNameOf(k, sanitizeFileName(rtitle))

\* C7: GET /video/random with a count that is absent or not a number answers
\* with min(5, catalog size) records.
C7_NonNumericCountIsDefault ==
    (/\ rop = "getRandomVideos"
     /\ rresult.status = "ok"
     /\ (~rquery.present \/ parseInt(rquery.value).nan)) =>
        Len(rresult.value) =
            IF Len(videos) < DefaultCount THEN Len(videos) ELSE DefaultCount

\* C8: a metadata object that does not parse fails the whole getAllVideos or
\* getRandomVideos call at the step that downloads it; a call that returns a
\* list has parsed every listed object.
C8_ParseFailureAbortsListing ==
    /\ [][ (/\ rpc = "download"
            /\ readVars' # readVars
            /\ ~store[files[fileIndex]].parses) =>
              /\ rpc' = "idle"
              /\ rresult'.status = "error" ]_vars
    /\ []((rop \in { "getAllVideos", "getRandomVideos" } /\ rresult.status = "ok") =>
              /\ Len(videos) = Len(files)
              /\ Len(rresult.value) <= Len(files))

\* getRandomVideos threw on an object that does not parse, after it had
\* parsed another one
C8_Witness ==
    /\ rop = "getRandomVideos"
    /\ rresult.status = "error"
    /\ Len(videos) >= 1
    /\ ~store[files[fileIndex]].parses

\* C9: sanitizeFileName applied to its own result returns that result.
C9_SanitizeIdempotent ==
    Len(sanOut) = 2 => sanOut[2] = sanOut[1]

\* a title the first call changed into a non-empty name, sanitized twice
C9_Witness ==
    /\ Len(sanOut) = 2
    /\ sanOut[1] # sanIn
    /\ sanOut[1] # << >>
    /\ Len(sanOut[1]) < Len(sanIn)

\* C10: every metadata object the service wrote names, in videoUrl, a video
\* object that is in the bucket (from an empty bucket: every metadata
\* object); and a step of a catalog read leaves the bucket as it is.
C10_MetadataHasBinaryReadsDoNotWrite ==
    /\ [](\A k \in DOMAIN store :
             (store[k].parses /\ store[k].by # 0) =>
                 \E b \in DOMAIN store :
                     /\ ~store[b].parses
                     /\ GsUrl(b) = store[k].value.videoUrl)
    /\ [][ ReadStep => store' = store ]_vars

\* a read has returned records while the bucket holds metadata of one upload
\* and the orphaned video object of another whose metadata write failed
C10_Witness ==
    /\ rresult.status = "ok"
    /\ rop = "getAllVideos"
    /\ Len(rresult.value) >= 1
    /\ \E u \in Uploads : MetadataObjectsOf(u) # {}
    /\ \E u \in Uploads :
          /\ upc[u] = "failed"
          /\ uresult[u].value = "metadata write"
          /\ BinaryKey(u) \in DOMAIN store

====
